---- MODULE Spec2Model ----
(***************************************************************************)
(* A model of zino-core's Response (src/zino-core/src/response/mod.rs):    *)
(* the per-request response object, its setters, the encoding pipeline     *)
(* read_bytes, the terminal finalize step with its metrics side effects    *)
(* and the conversion into the HTTP message.                               *)
(***************************************************************************)
EXTENDS Integers, Sequences, FiniteSets, TLC

VARIABLES
    res,      \* the Response owned by the handler (struct Response)
    phase,    \* "live", "read" (encoded by read_bytes), "finalized" (consumed
              \* by finalize), "sent" (converted)
    out,      \* what the last call returned: bytes, header list or HTTP message
    metrics,  \* the process-wide gauge / counter / histogram
    op,       \* the last operation applied and its arguments
    tasks     \* the concurrently finalizing request tasks (SpecConc)

vars == <<res, phase, out, metrics, op, tasks>>

----------------------------------------------------------------------------
(* Bounds of the model *)

MaxHeaders == 1      \* caller-inserted headers per response
MaxTimings == 1      \* caller-recorded server-timing metrics per response
MaxElapsed == 1      \* largest elapsed duration start_time.elapsed() yields
MaxReports == 1      \* direct response_time() calls per response
MaxSameName == 2     \* headers per response where names may repeat (SpecHeaders)
NTasks == 2          \* request tasks finalizing concurrently

----------------------------------------------------------------------------
(* Option<T>, Result<T, E> *)

None == <<>>
Some(x) == <<x>>
IsSome(o) == o # None
Unwrap(o) == o[1]

Ok(x) == [ok |-> TRUE, val |-> x]
Err(e) == [ok |-> FALSE, val |-> e]

----------------------------------------------------------------------------
(* JSON values (JsonValue) and what the handlers pass to the setters *)

\* kind: the JSON type; v: the compact JSON text of the value
JNull == [kind |-> "null", v |-> "null"]
JStr == [kind |-> "string", v |-> "'s'"]
JObj == [kind |-> "object", v |-> "{'k':1}"]

\* Uuid::nil() and a request id a context supplies
NilUuid == "00000000"
ReqUuid == "req-1"

\* text handed to set_message, and the text of a serde_json error
UserText == "custom text"
SerError == "serialization error"

\* A value handed to set_data: one serde_json can serialize, or one whose
\* Serialize implementation fails.
Unserializable == [kind |-> "unserializable", v |-> "?"]
JsonArgs == {JNull, JObj}
DataArgs == {JStr, Unserializable}

\* serde_json::value::to_raw_value: the serialized text of the value, or the
\* serializer's error.
to_raw_value(x) ==
    IF x = Unserializable THEN Err(SerError) ELSE Ok([raw |-> x.v])

\* Validation::into_map: the mapping of field errors (empty when valid).
EmptyMap == [kind |-> "object", v |-> "{}"]
ValidationMap == [kind |-> "object", v |-> "{'field':'error'}"]
PassedValidation == [success |-> TRUE, map |-> EmptyMap]
FailedValidation == [success |-> FALSE, map |-> ValidationMap]
Validations == {PassedValidation, FailedValidation}

AllJson == {JNull, JStr, JObj, EmptyMap, ValidationMap}

\* serde_json::to_value(&Option<Box<RawValue>>): None gives null, a raw value
\* is parsed back from its text.
raw_to_value(d) ==
    IF d = None THEN JNull ELSE CHOOSE x \in AllJson : x.v = Unwrap(d).raw

----------------------------------------------------------------------------
(* ResponseCode: the status capability (response_code.rs).  Codes with and *)
(* without a default message, successful and not.                          *)

OK ==
    [status_code |-> 200, success |-> TRUE, type_uri |-> None, title |-> None,
     error_code |-> None, message |-> Some("OK")]
CUSTOM_SUCCESS ==
    [status_code |-> 202, success |-> TRUE, type_uri |-> None, title |-> None,
     error_code |-> None, message |-> None]
BAD_REQUEST ==
    [status_code |-> 400, success |-> FALSE, type_uri |-> Some("about:blank"),
     title |-> Some("Bad Request"), error_code |-> Some("E400"),
     message |-> Some("bad request")]
INTERNAL_SERVER_ERROR ==
    [status_code |-> 500, success |-> FALSE, type_uri |-> None,
     title |-> Some("Internal Server Error"), error_code |-> None,
     message |-> None]

Codes == {OK, CUSTOM_SUCCESS, BAD_REQUEST, INTERNAL_SERVER_ERROR}
StatusCodes == {c.status_code : c \in Codes}

----------------------------------------------------------------------------
(* TraceContext and RequestContext (trace.rs, request.rs) *)

\* format!("{span_id:x}")
Hex(n) == CASE n = 10 -> "a" [] n = 11 -> "b" [] OTHER -> "0"

\* TraceContext::new(): fresh identifiers
FreshSpanIds == {10, 11}
NewTraceContext(span) ==
    [trace_id |-> "f0", span_id |-> span, flags |-> "00", state |-> <<>>]

\* TraceState::push
trace_state_push(tc, key, value) ==
    [tc EXCEPT !.state = Append(@, <<key, "=", value>>)]

\* TraceContext::traceparent: version-traceid-spanid-flags
traceparent(tc) == <<"00", "-", tc.trace_id, "-", Hex(tc.span_id), "-", tc.flags>>

RECURSIVE JoinWith(_, _)
JoinWith(parts, sep) ==
    IF parts = <<>> THEN <<>>
    ELSE IF Len(parts) = 1 THEN parts[1]
    ELSE parts[1] \o <<sep>> \o JoinWith(Tail(parts), sep)

\* TraceContext::tracestate: comma-joined vendor entries
tracestate(tc) == JoinWith(tc.state, ",")

\* The request contexts a handler can see: one with a request id, one whose
\* request id is nil.
CtxA ==
    [start_time |-> 0, request_id |-> ReqUuid, instance |-> "/a",
     trace |-> [trace_id |-> "c1", span_id |-> 11, flags |-> "01",
                state |-> << <<"up", "=", "1">> >>]]
CtxB ==
    [start_time |-> 0, request_id |-> NilUuid, instance |-> "/b",
     trace |-> [trace_id |-> "c2", span_id |-> 10, flags |-> "01",
                state |-> <<>>]]
Contexts == {CtxA, CtxB}

\* Instant::now() at construction (later than any context's start_time)
NowInstant == 1

----------------------------------------------------------------------------
(* struct Response: construction *)

\* Response::new
new(code) ==
    LET success == code.success
        message == code.message
    IN  [type_uri |-> code.type_uri,
         title |-> code.title,
         status_code |-> code.status_code,
         error_code |-> code.error_code,
         detail |-> IF success THEN None ELSE message,
         instance |-> None,
         success |-> success,
         message |-> IF success THEN message ELSE None,
         start_time |-> NowInstant,
         request_id |-> NilUuid,
         data |-> None,
         json_data |-> JNull,
         data_transformer |-> None,
         content_type |-> None,
         trace_context |-> None,
         server_timing |-> <<>>,
         headers |-> <<>>]

\* with_context that sets the instance for a successful code too
with_context_always_instance(code, ctx) ==
    [new(code) EXCEPT !.instance = Some(ctx.instance),
                      !.start_time = ctx.start_time,
                      !.request_id = ctx.request_id,
                      !.trace_context = Some(ctx.trace)]

\* Response::with_context
with_context(code, ctx) ==
    LET success == code.success
        message == code.message
    IN  [type_uri |-> code.type_uri,
         title |-> code.title,
         status_code |-> code.status_code,
         error_code |-> code.error_code,
         detail |-> IF success THEN None ELSE message,
         instance |-> IF ~success THEN Some(ctx.instance) ELSE None,
         success |-> success,
         message |-> IF success THEN message ELSE None,
         start_time |-> ctx.start_time,
         request_id |-> ctx.request_id,
         data |-> None,
         json_data |-> JNull,
         data_transformer |-> None,
         content_type |-> None,
         trace_context |-> Some(ctx.trace),
         server_timing |-> <<>>,
         headers |-> <<>>]

\* Response::is_success
is_success(r) == r.success

\* Response::status_code
status_code(r) == r.status_code

\* Response::request_id
request_id(r) == r.request_id

\* Response::context
context(r, ctx) ==
    [r EXCEPT !.instance = IF ~is_success(r) THEN Some(ctx.instance) ELSE None,
              !.start_time = ctx.start_time,
              !.request_id = ctx.request_id,
              !.trace_context = Some(ctx.trace)]

\* Response::render (feature "view").  result is what serializing the data
\* and rendering the template gave: the raw JSON string of the document, or
\* the error.
render(r, result) ==
    IF result.ok
    THEN [r EXCEPT !.data = Some(result.val),
                   !.json_data = JNull,
                   !.content_type = Some("text/html; charset=utf-8")]
    ELSE LET code == INTERNAL_SERVER_ERROR
         IN  [r EXCEPT !.type_uri = code.type_uri,
                       !.title = code.title,
                       !.status_code = code.status_code,
                       !.error_code = code.error_code,
                       !.success = FALSE,
                       !.detail = Some(result.val),
                       !.message = None,
                       !.data = None,
                       !.json_data = JNull]

----------------------------------------------------------------------------
(* struct Response: setters *)

\* set_code that writes the new slot and forgets to clear the other one
set_code_stale_slot(r, code) ==
    LET success == code.success
        message == code.message
    IN  [r EXCEPT !.type_uri = code.type_uri,
                  !.title = code.title,
                  !.status_code = code.status_code,
                  !.error_code = code.error_code,
                  !.success = success,
                  !.detail = IF success THEN @ ELSE message,
                  !.message = IF success THEN message ELSE @]

\* set_code that also resets the payload, as the error branch of render does
set_code_reset_payload(r, code) ==
    LET success == code.success
        message == code.message
    IN  [r EXCEPT !.type_uri = code.type_uri,
                  !.title = code.title,
                  !.status_code = code.status_code,
                  !.error_code = code.error_code,
                  !.success = success,
                  !.detail = IF success THEN None ELSE message,
                  !.message = IF success THEN message ELSE None,
                  !.data = None,
                  !.json_data = JNull]

\* Response::set_code
set_code(r, code) ==
    LET success == code.success
        message == code.message
    IN  [r EXCEPT !.type_uri = code.type_uri,
                  !.title = code.title,
                  !.status_code = code.status_code,
                  !.error_code = code.error_code,
                  !.success = success,
                  !.detail = IF success THEN None ELSE message,
                  !.message = IF success THEN message ELSE None]

\* set_message that always writes the message slot
set_message_success_slot(r, message) == [r EXCEPT !.message = Some(message)]

\* Response::set_message
set_message(r, message) ==
    IF is_success(r)
    THEN [r EXCEPT !.detail = None, !.message = Some(message)]
    ELSE [r EXCEPT !.detail = Some(message), !.message = None]

\* set_error_message that marks the response as failed
set_error_message_failing(r, error) ==
    [r EXCEPT !.success = FALSE, !.detail = Some(error), !.message = None]

\* Response::set_error_message: the error's text goes where set_message's does
set_error_message(r, error) ==
    LET message == error
    IN  IF is_success(r)
        THEN [r EXCEPT !.detail = None, !.message = Some(message)]
        ELSE [r EXCEPT !.detail = Some(message), !.message = None]

\* set_data that leaves the structured slot as it was
set_data_keep_json(r, data) ==
    LET result == to_raw_value(data)
    IN  IF result.ok
        THEN [r EXCEPT !.data = Some(result.val)]
        ELSE set_error_message(r, result.val)

\* set_data that drops the payload when serialization fails
set_data_drop_on_error(r, data) ==
    LET result == to_raw_value(data)
    IN  IF result.ok
        THEN [r EXCEPT !.data = Some(result.val), !.json_data = JNull]
        ELSE [set_error_message(r, result.val) EXCEPT !.data = None,
                                                     !.json_data = JNull]

\* Response::set_data
set_data(r, data) ==
    LET result == to_raw_value(data)
    IN  IF result.ok
        THEN [r EXCEPT !.data = Some(result.val), !.json_data = JNull]
        ELSE set_error_message(r, result.val)

\* Response::set_json_data
set_json_data(r, data) ==
    [r EXCEPT !.data = None, !.json_data = data]

\* Response::set_validation_data.  The serializer's outcome is an input: the
\* code handles an error of to_raw_value here as set_data does.
set_validation_data(r, validation, fails) ==
    LET result == IF fails THEN Err(SerError) ELSE to_raw_value(validation.map)
    IN  IF result.ok
        THEN [r EXCEPT !.data = Some(result.val), !.json_data = JNull]
        ELSE set_error_message(r, result.val)

\* Response::set_data_transformer
set_data_transformer(r, transformer) ==
    [r EXCEPT !.data_transformer = Some(transformer)]

\* set_content_type that removes the transformer of the earlier format
set_content_type_drops_transformer(r, content_type) ==
    [r EXCEPT !.content_type = Some(content_type), !.data_transformer = None]

\* Response::set_content_type
set_content_type(r, content_type) ==
    [r EXCEPT !.content_type = Some(content_type)]

\* Response::set_form_response
set_form_response(r, data) ==
    LET r1 == [r EXCEPT !.data = None, !.json_data = data]
        r2 == set_content_type(r1, "application/x-www-form-urlencoded")
    IN  set_data_transformer(r2, "form")

\* set_json_response that leaves the installed transformer alone
set_json_response_no_transformer(r, data) == set_json_data(r, data)

\* Response::set_json_response
set_json_response(r, data) ==
    set_data_transformer(set_json_data(r, data), "json")

\* Response::set_jsonlines_response
set_jsonlines_response(r, data) ==
    LET r1 == set_json_data(r, data)
        r2 == set_content_type(r1, "application/jsonlines; charset=utf-8")
    IN  set_data_transformer(r2, "jsonlines")

\* Response::set_msgpack_response
set_msgpack_response(r, data) ==
    LET r1 == set_json_data(r, data)
        r2 == set_content_type(r1, "application/msgpack")
    IN  set_data_transformer(r2, "msgpack")

\* Response::set_csv_response
set_csv_response(r, data) ==
    LET r1 == set_json_data(r, data)
        r2 == set_content_type(r1, "text/csv; charset=utf-8")
    IN  set_data_transformer(r2, "csv")

\* Response::set_request_id
set_request_id(r, id) == [r EXCEPT !.request_id = id]

\* Response::set_trace_context
set_trace_context(r, tc) == [r EXCEPT !.trace_context = tc]

\* Response::set_start_time
set_start_time(r, t) == [r EXCEPT !.start_time = t]

\* Response::set_instance
set_instance(r, instance) == [r EXCEPT !.instance = Some(instance)]

\* TimingMetric::new
TimingMetric(name, description, duration) ==
    [name |-> name, description |-> description, duration |-> duration]

\* Response::record_server_timing
record_server_timing(r, name, description, duration) ==
    LET metric == TimingMetric(name, description, duration)
    IN  [r EXCEPT !.server_timing = Append(@, metric)]

\* Response::insert_header
insert_header(r, name, value) ==
    [r EXCEPT !.headers = Append(@, <<name, value>>)]

----------------------------------------------------------------------------
(* struct Response: accessors and the encoding pipeline *)

\* content_type that answers the default whatever override is set
content_type_default_only(r) ==
    IF is_success(r) THEN "application/json; charset=utf-8"
    ELSE "application/problem+json; charset=utf-8"

\* Response::content_type
content_type(r) ==
    IF IsSome(r.content_type) THEN Unwrap(r.content_type)
    ELSE IF is_success(r) THEN "application/json; charset=utf-8"
    ELSE "application/problem+json; charset=utf-8"

\* has_context that looks at the trace context alone
has_context_trace_only(r) == IsSome(r.trace_context)

\* Response::has_context
has_context(r) == IsSome(r.trace_context) /\ r.request_id # NilUuid

\* Response::message
message(r) == IF IsSome(r.detail) THEN r.detail ELSE r.message

\* Response::get_header: the first value inserted under the name
get_header(r, name) ==
    LET hits == SelectSeq(r.headers, LAMBDA h : h[1] = name)
    IN  IF hits = <<>> THEN None ELSE Some(hits[1][2])

\* The content types of the model and the prefixes the dispatch tests
\* (str::starts_with).
ContentTypes ==
    {"application/json; charset=utf-8", "application/problem+json; charset=utf-8",
     "application/x-www-form-urlencoded", "application/jsonlines; charset=utf-8",
     "application/msgpack", "text/csv; charset=utf-8", "text/plain; charset=utf-8"}
starts_with(ct, prefix) ==
    CASE prefix = "text/csv" -> ct = "text/csv; charset=utf-8"
      [] prefix = "application/jsonlines" -> ct = "application/jsonlines; charset=utf-8"
      [] prefix = "application/msgpack" -> ct = "application/msgpack"
      [] OTHER -> FALSE

\* helper::check_json_content_type: application/json and application/*+json
check_json_content_type(ct) ==
    ct \in {"application/json; charset=utf-8",
            "application/problem+json; charset=utf-8"}

\* The codecs: the encoded bytes name the format and carry the JSON text.
\* serde_qs refuses a top-level value that is not a map.
to_csv(value) == Ok([enc |-> "csv", text |-> value.v])
to_jsonlines(value) == Ok([enc |-> "jsonlines", text |-> value.v])
to_msgpack(value) == Ok([enc |-> "msgpack", text |-> value.v])
to_json_vec(value) == Ok([enc |-> "json", text |-> value.v])
to_form(value) ==
    IF value.kind = "object" THEN Ok([enc |-> "form", text |-> value.v])
    ELSE Err("unsupported top-level value")

\* The data transformers the setters install, and a caller-supplied one that
\* reports an error.
Transformers == {"form", "json", "jsonlines", "msgpack", "csv", "custom"}
ApplyTransformer(t, value) ==
    CASE t = "form" -> to_form(value)
      [] t = "json" -> to_json_vec(value)
      [] t = "jsonlines" -> to_jsonlines(value)
      [] t = "msgpack" -> to_msgpack(value)
      [] t = "csv" -> to_csv(value)
      [] OTHER -> Err("transformer error")

\* #[derive(Serialize)] for Response: the fields serde keeps
Envelope(r) ==
    [type |-> r.type_uri, title |-> r.title, status |-> r.status_code,
     error |-> r.error_code, detail |-> r.detail, instance |-> r.instance,
     success |-> r.success, message |-> r.message,
     request_id |-> IF r.request_id = NilUuid THEN None ELSE Some(r.request_id),
     data |-> IF IsSome(r.data) THEN Some(Unwrap(r.data).raw)
              ELSE IF r.json_data # JNull THEN Some(r.json_data.v)
              ELSE None]

\* JsonValue::String(s): the characters of the string, without the quotes
as_str(value) == IF value = JStr THEN "s" ELSE ""

\* the bare-payload branches of read_bytes
EncodePayload(ct, value, text) ==
    IF starts_with(ct, "text/csv") THEN to_csv(value)
    ELSE IF starts_with(ct, "application/jsonlines") THEN to_jsonlines(value)
    ELSE IF starts_with(ct, "application/msgpack") THEN to_msgpack(value)
    ELSE IF value.kind = "string" THEN Ok([enc |-> "string", text |-> as_str(value)])
    ELSE Ok([enc |-> "text", text |-> text])

NoBytes == [enc |-> "empty", text |-> ""]

\* read_bytes that consults the transformer only for a non-JSON content type
read_bytes_dispatch_first(r) ==
    IF IsSome(r.data_transformer) /\ ~check_json_content_type(content_type(r))
    THEN IF r.json_data # JNull
         THEN ApplyTransformer(Unwrap(r.data_transformer), r.json_data)
         ELSE ApplyTransformer(Unwrap(r.data_transformer), raw_to_value(r.data))
    ELSE LET ct == content_type(r)
         IN  IF check_json_content_type(ct)
             THEN Ok([enc |-> "envelope", text |-> Envelope(r)])
             ELSE IF IsSome(r.data)
             THEN EncodePayload(ct, raw_to_value(r.data), Unwrap(r.data).raw)
             ELSE IF r.json_data # JNull
             THEN EncodePayload(ct, r.json_data, r.json_data.v)
             ELSE Ok(NoBytes)

\* read_bytes that answers a JSON content type with the bare payload, and
\* with an empty buffer when there is none
read_bytes_bare_payload(r) ==
    IF IsSome(r.data_transformer)
    THEN IF r.json_data # JNull
         THEN ApplyTransformer(Unwrap(r.data_transformer), r.json_data)
         ELSE ApplyTransformer(Unwrap(r.data_transformer), raw_to_value(r.data))
    ELSE IF IsSome(r.data) THEN to_json_vec(raw_to_value(r.data))
    ELSE IF r.json_data # JNull THEN to_json_vec(r.json_data)
    ELSE IF check_json_content_type(content_type(r))
    THEN Ok(NoBytes)
    ELSE Ok(NoBytes)

\* read_bytes that writes a string held in the raw slot as its JSON text
read_bytes_raw_text(r) ==
    IF IsSome(r.data_transformer)
    THEN IF r.json_data # JNull
         THEN ApplyTransformer(Unwrap(r.data_transformer), r.json_data)
         ELSE ApplyTransformer(Unwrap(r.data_transformer), raw_to_value(r.data))
    ELSE LET ct == content_type(r)
         IN  IF check_json_content_type(ct)
             THEN Ok([enc |-> "envelope", text |-> Envelope(r)])
             ELSE IF IsSome(r.data)
             THEN Ok([enc |-> "text", text |-> Unwrap(r.data).raw])
             ELSE IF r.json_data # JNull
             THEN EncodePayload(ct, r.json_data, r.json_data.v)
             ELSE Ok(NoBytes)

\* Response::read_bytes
read_bytes(r) ==
    IF IsSome(r.data_transformer)
    THEN IF r.json_data # JNull
         THEN ApplyTransformer(Unwrap(r.data_transformer), r.json_data)
         ELSE ApplyTransformer(Unwrap(r.data_transformer), raw_to_value(r.data))
    ELSE LET ct == content_type(r)
         IN  IF check_json_content_type(ct)
             THEN Ok([enc |-> "envelope", text |-> Envelope(r)])
             ELSE IF IsSome(r.data)
             THEN EncodePayload(ct, raw_to_value(r.data), Unwrap(r.data).raw)
             ELSE IF r.json_data # JNull
             THEN EncodePayload(ct, r.json_data, r.json_data.v)
             ELSE Ok(NoBytes)

----------------------------------------------------------------------------
(* Trace propagation, server timing, metrics and finalization *)

\* Response::trace_id
trace_id(r) ==
    IF IsSome(r.trace_context) THEN Unwrap(r.trace_context).trace_id ELSE NilUuid

\* trace_context that formats the fresh context without the vendor entry
trace_context_no_vendor(r, span) ==
    IF IsSome(r.trace_context)
    THEN <<traceparent(Unwrap(r.trace_context)), tracestate(Unwrap(r.trace_context))>>
    ELSE <<traceparent(NewTraceContext(span)), tracestate(NewTraceContext(span))>>

\* Response::trace_context: (traceparent, tracestate); span is the span id
\* TraceContext::new() draws when no context is attached.
trace_context(r, span) ==
    IF IsSome(r.trace_context)
    THEN <<traceparent(Unwrap(r.trace_context)), tracestate(Unwrap(r.trace_context))>>
    ELSE LET fresh == NewTraceContext(span)
             tc == trace_state_push(fresh, "zino", Hex(fresh.span_id))
         IN  <<traceparent(tc), tracestate(tc)>>

\* Display for TimingMetric: name;dur=ms;desc="description", absent parts omitted
RenderMetric(m) ==
    <<m.name>>
    \o (IF IsSome(m.duration) THEN <<";dur=", ToString(Unwrap(m.duration))>> ELSE <<>>)
    \o (IF IsSome(m.description) THEN <<";desc=", Unwrap(m.description)>> ELSE <<>>)

\* Response::server_timing: the metrics in recording order, comma-joined
server_timing(r) ==
    JoinWith([i \in 1..Len(r.server_timing) |-> RenderMetric(r.server_timing[i])], ",")

\* The metrics recorder: the in-flight gauge, the responses counter and the
\* duration histogram, the last two labelled by status code.
NoMetrics ==
    [in_flight |-> 0,
     responses_total |-> [s \in StatusCodes |-> 0],
     duration_seconds |-> [s \in StatusCodes |-> 0]]

\* metrics::decrement_gauge!("zino_http_requests_in_flight", 1.0)
decrement_gauge(m) == [m EXCEPT !.in_flight = @ - 1]

\* a counter update that is lost when another report is already counted
increment_counter_lost(m, label) ==
    [m EXCEPT !.responses_total[label] = IF @ = 0 THEN 1 ELSE @]

\* metrics::increment_counter!("zino_http_responses_total", &labels)
increment_counter(m, label) == [m EXCEPT !.responses_total[label] = @ + 1]

\* metrics::histogram!("zino_http_requests_duration_seconds", duration, &labels)
\* (the recorder keeps the number of samples per label)
histogram(m, label, value) ==
    [m EXCEPT !.duration_seconds[label] = @ + 1]

\* Response::response_time: the duration measured and the recorder after the
\* three reports; elapsed is what start_time.elapsed() returned.
response_time(r, m, elapsed) ==
    LET duration == elapsed
        label == status_code(r)
        m1 == decrement_gauge(m)
        m2 == increment_counter(m1, label)
        m3 == histogram(m2, label, duration)
    IN  [duration |-> duration, metrics |-> m3]

\* finalize that emits x-request-id for a nil request id too
FinalizeTrace_always_id(r, span) ==
    LET r1 == insert_header(r, "x-request-id", <<request_id(r)>>)
        tc == trace_context(r1, span)
        r2 == insert_header(r1, "traceparent", tc[1])
    IN  insert_header(r2, "tracestate", tc[2])

\* Response::finalize up to the call of response_time: the id and trace headers
FinalizeTrace(r, span) ==
    LET r1 == IF request_id(r) # NilUuid
              THEN insert_header(r, "x-request-id", <<request_id(r)>>)
              ELSE r
        tc == trace_context(r1, span)
        r2 == insert_header(r1, "traceparent", tc[1])
    IN  insert_header(r2, "tracestate", tc[2])

\* Response::finalize after response_time returned duration: the total metric
\* and the server-timing header; the header list is what the caller gets.
FinalizeTiming(r, duration) ==
    LET r1 == record_server_timing(r, "total", None, Some(duration))
        r2 == insert_header(r1, "server-timing", server_timing(r1))
    IN  r2.headers

\* finalize that measures the duration a second time for the total metric
finalize_measures_twice(r, m, span, elapsed) ==
    LET r1 == FinalizeTrace(r, span)
        rt == response_time(r1, m, elapsed)
        again == response_time(r1, rt.metrics, elapsed)
    IN  [headers |-> FinalizeTiming(r1, again.duration), metrics |-> again.metrics]

\* Response::finalize
finalize(r, m, span, elapsed) ==
    LET r1 == FinalizeTrace(r, span)
        rt == response_time(r1, m, elapsed)
    IN  [headers |-> FinalizeTiming(r1, rt.duration), metrics |-> rt.metrics]

----------------------------------------------------------------------------
(* impl From<Response<S>> for FullResponse *)

\* HeaderValue::try_from: control characters are refused
ValidHeaderValue(value) == \A i \in DOMAIN value : value[i] # "\n"

\* StatusCode::from_u16
ValidStatus(status) == 100 <= status /\ status <= 999

\* http::Response::default(): what unwrap_or_default() yields when the builder
\* holds an error.  headers is the HeaderMap: header name -> its one value.
DefaultFullResponse ==
    [status |-> 200, headers |-> <<>>, body |-> NoBytes]

\* an insertion that keeps the value the name already has
HeaderMapInsert_keep_first(map, key, value) ==
    [k \in DOMAIN map \cup {key} |->
        IF k \in DOMAIN map THEN map[k] ELSE value]

\* HeaderMap::insert: the value replaces the earlier value of the name
HeaderMapInsert(map, key, value) ==
    [k \in DOMAIN map \cup {key} |-> IF k = key THEN value ELSE map[k]]

\* http::Response::builder().status(..).header(CONTENT_TYPE, ..).body(..)
\*     .unwrap_or_default()
Builder(status, ct, body) ==
    IF ValidStatus(status) /\ ValidHeaderValue(<<ct>>)
    THEN [status |-> status,
          headers |-> HeaderMapInsert(<<>>, "content-type", <<ct>>),
          body |-> body]
    ELSE DefaultFullResponse

\* the loop over response.finalize(): headers with a valid value are inserted
RECURSIVE AttachHeaders(_, _)
AttachHeaders(msg, headers) ==
    IF headers = <<>> THEN msg
    ELSE LET h == Head(headers)
             next == IF ValidHeaderValue(h[2])
                     THEN [msg EXCEPT !.headers = HeaderMapInsert(@, h[1], h[2])]
                     ELSE msg
         IN  AttachHeaders(next, Tail(headers))

\* a conversion that gives up on the whole message at the first header whose
\* value is refused
into_full_response_abort(r, m, span, elapsed) ==
    LET bytes == read_bytes(r)
        built == IF bytes.ok
                 THEN Builder(status_code(r), content_type(r), bytes.val)
                 ELSE Builder(INTERNAL_SERVER_ERROR.status_code,
                              "text/plain; charset=utf-8",
                              [enc |-> "string", text |-> bytes.val])
        fin == finalize(r, m, span, elapsed)
        refused == \E i \in DOMAIN fin.headers : ~ValidHeaderValue(fin.headers[i][2])
    IN  [message |-> IF refused THEN DefaultFullResponse
                     ELSE AttachHeaders(built, fin.headers),
         metrics |-> fin.metrics,
         headers |-> fin.headers]

\* FullResponse::from(response)
into_full_response(r, m, span, elapsed) ==
    LET bytes == read_bytes(r)
        built == IF bytes.ok
                 THEN Builder(status_code(r), content_type(r), bytes.val)
                 ELSE Builder(INTERNAL_SERVER_ERROR.status_code,
                              "text/plain; charset=utf-8",
                              [enc |-> "string", text |-> bytes.val])
        fin == finalize(r, m, span, elapsed)
    IN  [message |-> AttachHeaders(built, fin.headers), metrics |-> fin.metrics,
         headers |-> fin.headers]

\* a conversion that puts the field errors in the structured slot
from_validation_json_slot(validation) ==
    IF validation.success THEN new(OK)
    ELSE set_json_data(new(BAD_REQUEST), validation.map)

\* impl From<Validation> for Response.  The mapping of a validation is a map
\* from strings to JSON values, which to_raw_value always serializes.
from_validation(validation) ==
    IF validation.success THEN new(OK)
    ELSE set_validation_data(new(BAD_REQUEST), validation, FALSE)

----------------------------------------------------------------------------
(* The handler's calls on its response *)

HeaderArgs == {<<"x-custom", <<"v1">>>>, <<"x-custom", <<"v2", "\n">>>>,
               <<"content-type", <<"text/html">>>>}
TimingArgs == {<<"db", None, Some(1)>>, <<"cache", Some("hit"), None>>}
ContentTypeArgs == {"text/plain; charset=utf-8", "text/csv; charset=utf-8"}
Elapsed == 0..MaxElapsed

NoOutput == [headers |-> <<>>, message |-> None]
Call(name, args) == [name |-> name, args |-> args]
Reports(m) == m.duration_seconds[200] + m.duration_seconds[202]
              + m.duration_seconds[400] + m.duration_seconds[500]

\* a setter call: the response is live, nothing else changes
Setter(name, args, r) ==
    /\ phase = "live"
    /\ res' = r
    /\ op' = Call(name, args)
    /\ UNCHANGED <<phase, out, metrics, tasks>>

Context == \E ctx \in Contexts : Setter("context", <<ctx>>, context(res, ctx))
SetCode == \E c \in Codes : Setter("set_code", <<c>>, set_code(res, c))
SetMessage == Setter("set_message", <<UserText>>, set_message(res, UserText))
SetErrorMessage ==
    Setter("set_error_message", <<"an error">>, set_error_message(res, "an error"))
SetData == \E x \in DataArgs : Setter("set_data", <<x>>, set_data(res, x))
SetJsonData == \E v \in JsonArgs : Setter("set_json_data", <<v>>, set_json_data(res, v))
SetValidationData ==
    \E fails \in BOOLEAN :
        Setter("set_validation_data", <<FailedValidation, fails>>,
               set_validation_data(res, FailedValidation, fails))
SetDataTransformer ==
    Setter("set_data_transformer", <<"custom">>, set_data_transformer(res, "custom"))
SetContentType ==
    \E ct \in ContentTypeArgs :
        Setter("set_content_type", <<ct>>, set_content_type(res, ct))
SetFormResponse ==
    \E v \in JsonArgs : Setter("set_form_response", <<v>>, set_form_response(res, v))
SetJsonResponse ==
    \E v \in JsonArgs : Setter("set_json_response", <<v>>, set_json_response(res, v))
SetJsonlinesResponse ==
    \E v \in JsonArgs :
        Setter("set_jsonlines_response", <<v>>, set_jsonlines_response(res, v))
SetMsgpackResponse ==
    \E v \in JsonArgs :
        Setter("set_msgpack_response", <<v>>, set_msgpack_response(res, v))
SetCsvResponse ==
    \E v \in JsonArgs : Setter("set_csv_response", <<v>>, set_csv_response(res, v))
RecordServerTimingOf(args) ==
    /\ Len(res.server_timing) < MaxTimings
    /\ \E t \in args :
           Setter("record_server_timing", t,
                  record_server_timing(res, t[1], t[2], t[3]))
InsertHeaderOf(args) ==
    /\ Len(res.headers) < MaxHeaders
    /\ \E h \in args :
           Setter("insert_header", h, insert_header(res, h[1], h[2]))
RecordServerTiming == RecordServerTimingOf({<<"db", None, Some(1)>>})
InsertHeader == InsertHeaderOf({<<"x-custom", <<"v1">>>>})
RecordAnyServerTiming == RecordServerTimingOf(TimingArgs)
InsertAnyHeader == InsertHeaderOf(HeaderArgs)

\* Response::set_request_id and Response::set_trace_context, called by the
\* crate's request extraction
RequestIdArgs == {NilUuid, ReqUuid}
TraceContextArgs == {None, Some(CtxA.trace)}
SetRequestId ==
    \E id \in RequestIdArgs :
        Setter("set_request_id", <<id>>, set_request_id(res, id))
SetTraceContext ==
    \E tc \in TraceContextArgs :
        Setter("set_trace_context", <<tc>>, set_trace_context(res, tc))

\* The payloads and content types of the encoding pipeline: null, a bare
\* string and an object, in either slot, under every media type read_bytes
\* distinguishes.
PayloadArgs == {JNull, JStr, JObj}
BytesContentTypes ==
    {"text/plain; charset=utf-8", "text/csv; charset=utf-8",
     "application/jsonlines; charset=utf-8", "application/msgpack",
     "application/json; charset=utf-8"}
SetAnyData == \E x \in PayloadArgs : Setter("set_data", <<x>>, set_data(res, x))
SetAnyJsonData ==
    \E v \in PayloadArgs : Setter("set_json_data", <<v>>, set_json_data(res, v))
SetAnyContentType ==
    \E ct \in BytesContentTypes :
        Setter("set_content_type", <<ct>>, set_content_type(res, ct))

\* Response::read_bytes: the response is borrowed, the caller gets the bytes
\* or the error; after: the call the read follows.
ReadBytes ==
    /\ phase = "live"
    /\ out' = [headers |-> <<>>, message |-> None, bytes |-> read_bytes(res)]
    /\ op' = [name |-> "read_bytes", args |-> <<>>, after |-> op]
    /\ phase' = "read"
    /\ UNCHANGED <<res, metrics, tasks>>

\* Response::render: the template renders, or rendering fails
RenderResults == {Ok([raw |-> JStr.v]), Err("invalid template data")}
Render == \E result \in RenderResults : Setter("render", <<result>>, render(res, result))

\* Response::insert_header with names that repeat, that finalize generates
\* too, or that the conversion sets itself
SameNameArgs ==
    {<<"x-custom", <<"v1">>>>, <<"x-custom", <<"v2">>>>,
     <<"x-custom", <<"v3", "\n">>>>, <<"content-type", <<"text/html">>>>,
     <<"traceparent", <<"caller">>>>}
InsertSameNameHeader ==
    /\ Len(res.headers) < MaxSameName
    /\ \E h \in SameNameArgs :
           Setter("insert_header", h, insert_header(res, h[1], h[2]))

\* Response::response_time called by the handler itself (it is pub)
ResponseTime ==
    /\ phase = "live"
    /\ Reports(metrics) < MaxReports
    /\ \E elapsed \in Elapsed :
           /\ metrics' = response_time(res, metrics, elapsed).metrics
           /\ op' = Call("response_time", <<>>)
    /\ UNCHANGED <<res, phase, out, tasks>>

\* Response::finalize consumes the response
Finalize ==
    /\ phase = "live"
    /\ \E span \in FreshSpanIds, elapsed \in Elapsed :
           LET fin == finalize(res, metrics, span, elapsed)
           IN  /\ out' = [headers |-> fin.headers, message |-> None]
               /\ metrics' = fin.metrics
               /\ op' = Call("finalize", <<>>)
    /\ phase' = "finalized"
    /\ UNCHANGED <<res, tasks>>

\* FullResponse::from consumes the response
IntoFullResponse ==
    /\ phase = "live"
    /\ \E span \in FreshSpanIds, elapsed \in Elapsed :
           LET conv == into_full_response(res, metrics, span, elapsed)
           IN  /\ out' = [headers |-> conv.headers, message |-> Some(conv.message)]
               /\ metrics' = conv.metrics
               /\ op' = Call("into_full_response", <<>>)
    /\ phase' = "sent"
    /\ UNCHANGED <<res, tasks>>

\* The state after construction: Response::new or Response::with_context
InitWith(codes, contexts) ==
    /\ \/ \E c \in codes : res = new(c) /\ op = Call("new", <<c>>)
       \/ \E c \in codes, ctx \in contexts :
              res = with_context(c, ctx) /\ op = Call("with_context", <<c, ctx>>)
    /\ phase = "live"
    /\ out = NoOutput
    /\ metrics = NoMetrics
    /\ tasks = <<>>

Init == InitWith(Codes, {CtxA})

Next ==
    \/ Context
    \/ SetCode
    \/ SetMessage
    \/ SetErrorMessage
    \/ SetData
    \/ SetJsonData
    \/ SetValidationData
    \/ SetDataTransformer
    \/ SetContentType
    \/ SetFormResponse
    \/ SetJsonResponse
    \/ SetJsonlinesResponse
    \/ SetMsgpackResponse
    \/ SetCsvResponse
    \/ RecordServerTiming
    \/ InsertHeader

Spec == Init /\ [][Next]_vars

----------------------------------------------------------------------------
(* The end of a response's life: a handler that builds a response, adds    *)
(* headers and timings, and hands it to finalize or to the HTTP conversion *)

InitFinal == InitWith({OK, INTERNAL_SERVER_ERROR}, Contexts)

NextFinal ==
    \/ SetDataTransformer
    \/ SetFormResponse
    \/ SetContentType
    \/ RecordAnyServerTiming
    \/ InsertAnyHeader
    \/ ResponseTime
    \/ Finalize
    \/ IntoFullResponse

SpecFinal == InitFinal /\ [][NextFinal]_vars

----------------------------------------------------------------------------
(* Request tasks finalizing their responses concurrently.  Each task owns  *)
(* its response; the recorder is shared, and each metrics macro is one     *)
(* atomic update of it.  A cancelled task drops its response.              *)

Tasks == 1..NTasks

TaskResponses == {new(OK), with_context(INTERNAL_SERVER_ERROR, CtxA)}

InitConc ==
    /\ tasks \in [Tasks -> [pc : {"ready"}, res : TaskResponses,
                            duration : {0}, headers : {<<>>}]]
    /\ res = new(OK)
    /\ op = Call("new", <<OK>>)
    /\ phase = "live"
    /\ out = NoOutput
    /\ metrics = NoMetrics

\* finalize, lines 561-568, and the first line of response_time
FinStart(t) ==
    /\ tasks[t].pc = "ready"
    /\ \E span \in FreshSpanIds, elapsed \in Elapsed :
           tasks' = [tasks EXCEPT ![t].res = FinalizeTrace(@, span),
                                  ![t].duration = elapsed,
                                  ![t].pc = "gauge"]
    /\ UNCHANGED <<res, phase, out, metrics, op>>

\* response_time: decrement_gauge!
FinGauge(t) ==
    /\ tasks[t].pc = "gauge"
    /\ metrics' = decrement_gauge(metrics)
    /\ tasks' = [tasks EXCEPT ![t].pc = "counter"]
    /\ UNCHANGED <<res, phase, out, op>>

\* response_time: increment_counter!
FinCounter(t) ==
    /\ tasks[t].pc = "counter"
    /\ metrics' = increment_counter(metrics, status_code(tasks[t].res))
    /\ tasks' = [tasks EXCEPT ![t].pc = "histogram"]
    /\ UNCHANGED <<res, phase, out, op>>

\* response_time: histogram!, then the rest of finalize
FinHistogram(t) ==
    /\ tasks[t].pc = "histogram"
    /\ metrics' = histogram(metrics, status_code(tasks[t].res), tasks[t].duration)
    /\ tasks' = [tasks EXCEPT ![t].headers = FinalizeTiming(tasks[t].res, tasks[t].duration),
                              ![t].pc = "done"]
    /\ UNCHANGED <<res, phase, out, op>>

\* the request is cancelled: the response is dropped, finalize never runs
Drop(t) ==
    /\ tasks[t].pc = "ready"
    /\ tasks' = [tasks EXCEPT ![t].pc = "dropped"]
    /\ UNCHANGED <<res, phase, out, metrics, op>>

NextConc ==
    \E t \in Tasks :
        \/ FinStart(t)
        \/ FinGauge(t)
        \/ FinCounter(t)
        \/ FinHistogram(t)
        \/ Drop(t)

SpecConc == InitConc /\ [][NextConc]_vars

----------------------------------------------------------------------------
(* Construction: every way the crate builds a response, and the calls that *)
(* attach or replace its request context                                   *)

InitBuild ==
    /\ \/ \E c \in Codes : res = new(c) /\ op = Call("new", <<c>>)
       \/ \E c \in Codes, ctx \in Contexts :
              res = with_context(c, ctx) /\ op = Call("with_context", <<c, ctx>>)
       \/ \E v \in Validations :
              res = from_validation(v) /\ op = Call("from", <<v>>)
    /\ phase = "live"
    /\ out = NoOutput
    /\ metrics = NoMetrics
    /\ tasks = <<>>

NextBuild ==
    \/ Context
    \/ SetCode
    \/ SetRequestId
    \/ SetTraceContext

SpecBuild == InitBuild /\ [][NextBuild]_vars

----------------------------------------------------------------------------
(* The encoding pipeline: a handler that sets code, payload, content type  *)
(* and transformer in any order, and then has the body encoded             *)

NextBytes ==
    \/ SetCode
    \/ SetAnyData
    \/ SetAnyJsonData
    \/ SetValidationData
    \/ SetAnyContentType
    \/ SetDataTransformer
    \/ SetFormResponse
    \/ SetJsonResponse
    \/ SetJsonlinesResponse
    \/ SetMsgpackResponse
    \/ SetCsvResponse
    \/ ReadBytes

SpecBytes == Init /\ [][NextBytes]_vars

----------------------------------------------------------------------------
(* The text of a response: every call that writes success, message or      *)
(* detail, on every response the crate can build                           *)

NextText ==
    \/ Context
    \/ SetCode
    \/ SetMessage
    \/ SetErrorMessage
    \/ SetData
    \/ SetValidationData
    \/ Render

SpecText == InitBuild /\ [][NextText]_vars

----------------------------------------------------------------------------
(* Headers: a handler inserts headers, some under the same name, and the   *)
(* response is finalized or converted                                      *)

InitHeaders == InitWith({OK}, {CtxA})

NextHeaders ==
    \/ InsertSameNameHeader
    \/ Finalize
    \/ IntoFullResponse

SpecHeaders == InitHeaders /\ [][NextHeaders]_vars

----------------------------------------------------------------------------
(* Properties *)

\* the slot the success flag selects, and the other one
SelectedSlot(r) == IF r.success THEN r.message ELSE r.detail
OtherSlot(r) == IF r.success THEN r.detail ELSE r.message
CodeCalls == {"new", "with_context", "set_code"}
TextCalls == {"set_message", "set_error_message"}
FailedSerialization(o) ==
    \/ o.name = "set_data" /\ o.args[1] = Unserializable
    \/ o.name = "set_validation_data" /\ o.args[2]

\* C1 (as stated): in every state exactly one of message and detail is
\* populated: message when success is true, detail when success is false.
C1_ExactlyOneSlot ==
    /\ IsSome(SelectedSlot(res))
    /\ OtherSlot(res) = None

\* C1 (amended): the slot success does not select is always empty; right
\* after new / with_context / set_code the selected slot holds the code's
\* default message, so it is empty too when the code has none; right after
\* set_message / set_error_message or a failed serialization it holds the text.
C1_SlotFollowsSuccess ==
    /\ OtherSlot(res) = None
    /\ op.name \in CodeCalls => SelectedSlot(res) = op.args[1].message
    /\ op.name \in TextCalls => SelectedSlot(res) = Some(op.args[1])
    /\ FailedSerialization(op) => SelectedSlot(res) = Some(SerError)

\* C1 witness: set_code with a code that has no default message emptied a
\* response whose earlier code had one
C1_Witness ==
    /\ op.name = "set_code"
    /\ op.args[1] = INTERNAL_SERVER_ERROR
    /\ res.detail = None
    /\ res.message = None
    /\ res.json_data # JNull

\* C2: the raw slot data and the structured slot json_data are never both
\* non-empty; a successful raw setter leaves data filled and json_data null,
\* a structured setter leaves data empty and json_data equal to its argument.
JsonSetters ==
    {"set_json_data", "set_form_response", "set_json_response",
     "set_jsonlines_response", "set_msgpack_response", "set_csv_response"}
RawSetters == {"set_data", "set_validation_data"}
C2_PayloadSlotsExclusive ==
    /\ ~(IsSome(res.data) /\ res.json_data # JNull)
    /\ op.name \in JsonSetters => res.data = None /\ res.json_data = op.args[1]
    /\ (op.name \in RawSetters /\ ~FailedSerialization(op)) =>
           IsSome(res.data) /\ res.json_data = JNull

\* C2 witness: set_data filled the raw slot of a response on which a
\* convenience setter had installed its transformer
C2_Witness ==
    /\ op.name = "set_data"
    /\ IsSome(res.data)
    /\ res.json_data = JNull
    /\ res.data_transformer = Some("csv")

\* the tasks whose finalize has passed the given steps
Passed(pcs) == {t \in Tasks : tasks[t].pc \in pcs}
PassedWith(pcs, status) ==
    {t \in Passed(pcs) : status_code(tasks[t].res) = status}
AllSettled == \A t \in Tasks : tasks[t].pc \in {"done", "dropped"}

\* C3: in every interleaving of concurrently finalizing tasks the gauge has
\* been decremented once, the counter of the response's status incremented
\* once and one histogram sample recorded per finalize that reached that
\* step; when all tasks are settled the counters sum to the number of
\* finalized responses, and a dropped response contributes nothing.
C3_CountersMatchFinalizes ==
    /\ metrics.in_flight = 0 - Cardinality(Passed({"counter", "histogram", "done"}))
    /\ \A s \in StatusCodes :
           /\ metrics.responses_total[s] =
                  Cardinality(PassedWith({"histogram", "done"}, s))
           /\ metrics.duration_seconds[s] = Cardinality(PassedWith({"done"}, s))
    /\ AllSettled =>
           metrics.responses_total[200] + metrics.responses_total[202]
           + metrics.responses_total[400] + metrics.responses_total[500]
               = Cardinality(Passed({"done"}))

\* C3 witness: two tasks have finalized responses of the same status, so
\* both incremented the same counter
C3_Witness ==
    /\ AllSettled
    /\ \E t \in Tasks, u \in Tasks :
           /\ t # u
           /\ tasks[t].pc = "done"
           /\ tasks[u].pc = "done"
           /\ status_code(tasks[t].res) = status_code(tasks[u].res)
           /\ metrics.responses_total[status_code(tasks[t].res)] = 2

\* C4 (as stated): over the life of one response the observability signals
\* are reported at most once.
C4_ReportedAtMostOnce == Reports(metrics) <= 1

ConsumingCalls == {"finalize", "into_full_response"}

\* C4 (amended): a step changes the metrics only if it is response_time,
\* finalize or the HTTP conversion (which runs finalize), and each of them
\* reports exactly once: gauge - 1, the counter and the histogram of the
\* response's status + 1; finalize consumes a live response, so it cannot
\* run twice; response_time is public too and reports once per call.
C4_OneReportPerCall ==
    [][/\ metrics' # metrics => op'.name \in ConsumingCalls \cup {"response_time"}
       /\ op'.name \in ConsumingCalls \cup {"response_time"} =>
              metrics' = [metrics EXCEPT
                             !.in_flight = @ - 1,
                             !.responses_total[res.status_code] = @ + 1,
                             !.duration_seconds[res.status_code] = @ + 1]
       /\ op'.name \in ConsumingCalls => phase = "live" /\ phase' # "live"
       /\ phase # "live" => metrics' = metrics]_vars

\* C4 witness: finalize has consumed a response on which response_time was
\* never called directly, and reported once
C4_Witness ==
    /\ phase = "finalized"
    /\ op.name = "finalize"
    /\ Reports(metrics) = 1
    /\ metrics.in_flight = 0 - 1

\* the header list finalize yields for response r
TimingEntries(r) == [i \in 1..Len(r.server_timing) |-> RenderMetric(r.server_timing[i])]
TotalEntry(d) == <<"total", ";dur=", ToString(d)>>

\* C5: finalize yields the caller's headers in insertion order, then
\* x-request-id iff the request id is non-nil, then traceparent, tracestate
\* and server-timing; the server-timing value renders the recorded metrics in
\* order followed by a total metric with a non-negative duration.
C5_FinalizeHeaderOrder ==
    phase \in {"finalized", "sent"} =>
        LET h == out.headers
            n == Len(res.headers)
            k == IF res.request_id # NilUuid THEN 1 ELSE 0
        IN  /\ Len(h) = n + k + 3
            /\ SubSeq(h, 1, n) = res.headers
            /\ k = 1 => h[n + 1] = <<"x-request-id", <<res.request_id>>>>
            /\ h[n + k + 1][1] = "traceparent"
            /\ h[n + k + 2][1] = "tracestate"
            /\ h[n + k + 3][1] = "server-timing"
            /\ \E d \in (0 - MaxElapsed)..MaxElapsed :
                   /\ d >= 0
                   /\ h[n + k + 3][2] =
                          JoinWith(Append(TimingEntries(res), TotalEntry(d)), ",")

\* C5 witness: a response with a caller header, a recorded metric and a
\* request id has been finalized
C5_Witness ==
    /\ phase = "finalized"
    /\ res.headers # <<>>
    /\ res.server_timing # <<>>
    /\ res.request_id # NilUuid
    /\ Len(out.headers) = Len(res.headers) + 4

\* the format a convenience setter stands for: its transformer and whether
\* a content type is the media type of the format
ConvenienceSetters ==
    {"set_form_response", "set_json_response", "set_jsonlines_response",
     "set_msgpack_response", "set_csv_response"}
FormatOf(name) ==
    CASE name = "set_form_response" -> "form"
      [] name = "set_json_response" -> "json"
      [] name = "set_jsonlines_response" -> "jsonlines"
      [] name = "set_msgpack_response" -> "msgpack"
      [] name = "set_csv_response" -> "csv"
IsMediaTypeOf(ct, format) ==
    CASE format = "form" -> ct = "application/x-www-form-urlencoded"
      [] format = "json" -> check_json_content_type(ct)
      [] format = "jsonlines" -> ct = "application/jsonlines; charset=utf-8"
      [] format = "msgpack" -> ct = "application/msgpack"
      [] format = "csv" -> ct = "text/csv; charset=utf-8"
      [] OTHER -> FALSE

\* C6 (as stated): right after a convenience setter json_data is the argument,
\* the effective content type is the media type of the setter's format (any
\* JSON media type for set_json_response) and the transformer of that format
\* is installed.
C6_ConvenienceSetterConsistent ==
    op.name \in ConvenienceSetters =>
        /\ res.json_data = op.args[1]
        /\ res.data_transformer = Some(FormatOf(op.name))
        /\ IsMediaTypeOf(content_type(res), FormatOf(op.name))

\* C7: a failed serialization in set_data or set_validation_data writes the
\* error text to the slot the current success flag selects, clears the other
\* slot and changes nothing else of the response.
C7_FailedSerializationOnlySetsText ==
    [][FailedSerialization(op') =>
           /\ res'.success = res.success
           /\ res'.status_code = res.status_code
           /\ SelectedSlot(res') = Some(SerError)
           /\ OtherSlot(res') = None
           /\ res'.data = res.data
           /\ res'.json_data = res.json_data
           /\ res'.content_type = res.content_type
           /\ res'.data_transformer = res.data_transformer
           /\ res'.headers = res.headers
           /\ res'.type_uri = res.type_uri
           /\ res'.title = res.title
           /\ res'.error_code = res.error_code
           /\ phase' = phase]_vars

\* C7 witness: set_data failed on a response built for INTERNAL_SERVER_ERROR
\* that already carried a payload
C7_Witness ==
    /\ op.name = "set_data"
    /\ op.args[1] = Unserializable
    /\ res.status_code = 500
    /\ ~res.success
    /\ res.detail = Some(SerError)
    /\ res.message = None
    /\ res.json_data # JNull

\* C8 (as stated, the failing case): the HTTP message built from a response
\* whose read_bytes returns an error has the INTERNAL_SERVER_ERROR status,
\* content type text/plain; charset=utf-8 and the error text as body.
C8_ErrorDowngradesMessage ==
    (phase = "sent" /\ ~read_bytes(res).ok) =>
        LET msg == Unwrap(out.message)
        IN  /\ msg.status = 500
            /\ "content-type" \in DOMAIN msg.headers
            /\ msg.headers["content-type"] = <<"text/plain; charset=utf-8">>
            /\ msg.body.enc = "string"
            /\ msg.body.text = read_bytes(res).val

\* C9: set_code(code) takes status_code, success, type, title and error code
\* from the code, re-derives message / detail from the code alone, and leaves
\* payload, transformer, content type override, headers, server-timing
\* metrics, request id, trace context and start time as they were.
C9_SetCodeFrame ==
    [][op'.name = "set_code" =>
           LET code == op'.args[1]
           IN  /\ res'.status_code = code.status_code
               /\ res'.success = code.success
               /\ res'.type_uri = code.type_uri
               /\ res'.title = code.title
               /\ res'.error_code = code.error_code
               /\ SelectedSlot(res') = code.message
               /\ OtherSlot(res') = None
               /\ res'.data = res.data
               /\ res'.json_data = res.json_data
               /\ res'.data_transformer = res.data_transformer
               /\ res'.content_type = res.content_type
               /\ res'.headers = res.headers
               /\ res'.server_timing = res.server_timing
               /\ res'.request_id = res.request_id
               /\ res'.trace_context = res.trace_context
               /\ res'.start_time = res.start_time]_vars

\* C9 witness: set_code ran on a response that carries a payload, a
\* transformer, a content type, a header, a metric and a request context
C9_Witness ==
    /\ op.name = "set_code"
    /\ op.args[1] = BAD_REQUEST
    /\ res.detail = Some("bad request")
    /\ res.json_data # JNull
    /\ IsSome(res.data_transformer)
    /\ IsSome(res.content_type)
    /\ res.headers # <<>>
    /\ res.server_timing # <<>>
    /\ has_context(res)

\* C10: set_message and set_error_message write their text to the slot the
\* current success flag selects, clear the other slot, and change neither
\* success, status_code, the payload slots, headers nor the trace state.
C10_TextSettersFrame ==
    [][op'.name \in TextCalls =>
           /\ res'.success = res.success
           /\ res'.status_code = res.status_code
           /\ (IF res.success THEN res'.message ELSE res'.detail) = Some(op'.args[1])
           /\ (IF res.success THEN res'.detail ELSE res'.message) = None
           /\ res'.data = res.data
           /\ res'.json_data = res.json_data
           /\ res'.headers = res.headers
           /\ res'.request_id = res.request_id
           /\ res'.trace_context = res.trace_context]_vars

\* C10 witness: set_error_message ran on a successful response that carries
\* a payload, a header and a trace context; the text went to message
C10_Witness ==
    /\ op.name = "set_error_message"
    /\ res.success
    /\ res.message = Some("an error")
    /\ res.detail = None
    /\ IsSome(res.data)
    /\ res.headers # <<>>
    /\ IsSome(res.trace_context)

\* the calls that attach or replace the request id or the trace context
ContextCalls == {"context", "set_request_id", "set_trace_context"}

\* C11: has_context() is true iff a trace context is attached and the request
\* id is non-nil; it is false right after new(code) (and from(validation),
\* which builds with new), after with_context(code, ctx) or context(ctx) it is
\* true exactly when ctx.request_id() is non-nil, and only context,
\* set_request_id and set_trace_context change it.
C11_HasContext ==
    /\ [](/\ has_context(res) <=>
                  (IsSome(res.trace_context) /\ res.request_id # NilUuid)
          /\ op.name \in {"new", "from"} => ~has_context(res)
          /\ op.name = "with_context" =>
                 (has_context(res) <=> op.args[2].request_id # NilUuid)
          /\ op.name = "context" =>
                 (has_context(res) <=> op.args[1].request_id # NilUuid))
    /\ [][op'.name \notin ContextCalls => has_context(res') = has_context(res)]_vars

\* C11 witness: set_trace_context(None) detached the trace context of a
\* response that keeps its non-nil request id, so has_context() is false
C11_Witness ==
    /\ op.name = "set_trace_context"
    /\ op.args[1] = None
    /\ res.request_id # NilUuid
    /\ res.trace_context = None
    /\ ~has_context(res)

\* the calls that set the content type override, and the value they set
ContentTypeCalls ==
    {"set_content_type", "set_form_response", "set_jsonlines_response",
     "set_msgpack_response", "set_csv_response"}
OverrideOf(o) ==
    CASE o.name = "set_content_type" -> o.args[1]
      [] o.name = "set_form_response" -> "application/x-www-form-urlencoded"
      [] o.name = "set_jsonlines_response" -> "application/jsonlines; charset=utf-8"
      [] o.name = "set_msgpack_response" -> "application/msgpack"
      [] o.name = "set_csv_response" -> "text/csv; charset=utf-8"
DefaultContentType(success) ==
    IF success THEN "application/json; charset=utf-8"
    ELSE "application/problem+json; charset=utf-8"

\* C12: content_type() depends on the response alone; it is the override a
\* content-type setting call installed, from that call on and through every
\* later call that is not such a setter (set_code included); while no such
\* call has been made it is the default of the current success flag, so it
\* follows set_code, and no other call changes it.
C12_ContentTypeAccessor ==
    /\ [](/\ op.name \in {"new", "with_context"} =>
                 content_type(res) = DefaultContentType(op.args[1].success)
          /\ res.content_type = None =>
                 content_type(res) = DefaultContentType(res.success))
    /\ [][/\ op'.name \in ContentTypeCalls => content_type(res') = OverrideOf(op')
          /\ (op'.name \notin ContentTypeCalls /\ IsSome(res.content_type)) =>
                 content_type(res') = content_type(res)
          /\ (op'.name = "set_code" /\ res.content_type = None) =>
                 content_type(res') = DefaultContentType(op'.args[1].success)
          /\ op'.name \notin ContentTypeCalls \cup {"set_code"} =>
                 content_type(res') = content_type(res)]_vars

\* C12 witness: set_code made a response without override fail, and its
\* content type is now the problem+json default
C12_Witness ==
    /\ op.name = "set_code"
    /\ ~op.args[1].success
    /\ res.content_type = None
    /\ res.json_data # JNull
    /\ content_type(res) = "application/problem+json; charset=utf-8"

\* the response as it would be had the headers with a refused value never
\* been inserted
WithoutInvalidHeaders(r) ==
    [r EXCEPT !.headers = SelectSeq(@, LAMBDA h : ValidHeaderValue(h[2]))]

\* C13: the HTTP message built from a response is the message the conversion
\* builds from the same response without its invalid-valued headers: same
\* status, same body, same other headers; no emitted header has an invalid
\* value.
C13_InvalidHeaderOmitted ==
    phase = "sent" =>
        LET msg == Unwrap(out.message)
        IN  /\ \E span \in FreshSpanIds, elapsed \in Elapsed :
                   msg = into_full_response(WithoutInvalidHeaders(res), NoMetrics,
                                            span, elapsed).message
            /\ \A k \in DOMAIN msg.headers : ValidHeaderValue(msg.headers[k])

\* C13 witness: a response carrying a header with an invalid value has been
\* converted; the message has the trace and timing headers but not that one
C13_Witness ==
    /\ phase = "sent"
    /\ \E i \in DOMAIN res.headers :
           /\ ~ValidHeaderValue(res.headers[i][2])
           /\ \A k \in DOMAIN Unwrap(out.message).headers :
                  Unwrap(out.message).headers[k] # res.headers[i][2]
    /\ {"content-type", "traceparent", "tracestate", "server-timing"}
           \subseteq DOMAIN Unwrap(out.message).headers
    /\ Unwrap(out.message).status = res.status_code

\* the headers named name in a header list, in order
HeadersNamed(headers, name) == SelectSeq(headers, LAMBDA h : h[1] = name)

\* C14: with a trace context attached trace_context() is the traceparent and
\* tracestate of that context, whatever fresh identifiers a call would draw,
\* and the trace id in traceparent is trace_id(); with none attached it is the
\* formatting of a fresh context whose span id is in traceparent and whose
\* tracestate is the single entry zino=<that span id in hexadecimal>.  A
\* finalized response carries exactly that pair as its traceparent and
\* tracestate headers.
C14_TraceContextPair ==
    /\ IsSome(res.trace_context) =>
           \A span \in FreshSpanIds :
               LET tc == Unwrap(res.trace_context)
                   pair == trace_context(res, span)
               IN  /\ pair = <<traceparent(tc), tracestate(tc)>>
                   /\ pair[1][3] = trace_id(res)
    /\ res.trace_context = None =>
           \A span \in FreshSpanIds :
               LET pair == trace_context(res, span)
               IN  /\ pair[1] = traceparent(NewTraceContext(span))
                   /\ pair[1][5] = Hex(span)
                   /\ pair[2] = <<"zino", "=", Hex(span)>>
    /\ phase \in {"finalized", "sent"} =>
           \E span \in FreshSpanIds :
               LET pair == trace_context(res, span)
               IN  /\ HeadersNamed(out.headers, "traceparent")
                          = << <<"traceparent", pair[1]>> >>
                   /\ HeadersNamed(out.headers, "tracestate")
                          = << <<"tracestate", pair[2]>> >>
                   /\ phase = "sent" =>
                          /\ Unwrap(out.message).headers["traceparent"] = pair[1]
                          /\ Unwrap(out.message).headers["tracestate"] = pair[2]

\* C14 witness: a response built by new, with no trace context, has been
\* finalized and carries the vendor entry of the fresh span b
C14_Witness ==
    /\ phase = "finalized"
    /\ res.trace_context = None
    /\ HeadersNamed(out.headers, "tracestate") = << <<"tracestate", <<"zino", "=", "b">>>> >>
    /\ HeadersNamed(out.headers, "traceparent")
           = << <<"traceparent", <<"00", "-", "f0", "-", "b", "-", "00">>>> >>

\* C15: with_context(code, ctx) is new(code) with start_time and request_id
\* taken from ctx, the trace context ctx.new_trace_context() attached, and
\* instance set to ctx's instance URI iff the code is non-successful.
C15_WithContextDerivation ==
    op.name = "with_context" =>
        LET code == op.args[1]
            ctx == op.args[2]
        IN  /\ res = [new(code) EXCEPT
                          !.start_time = ctx.start_time,
                          !.request_id = ctx.request_id,
                          !.trace_context = Some(ctx.trace),
                          !.instance = IF code.success THEN None
                                       ELSE Some(ctx.instance)]
            /\ IsSome(res.instance) <=> ~code.success
            /\ res.status_code = code.status_code
            /\ res.success = code.success
            /\ SelectedSlot(res) = code.message
            /\ OtherSlot(res) = None

\* C15 witness: with_context built a failing response from the context whose
\* request id is nil; it carries that context's instance and start time
C15_Witness ==
    /\ op.name = "with_context"
    /\ op.args[1] = BAD_REQUEST
    /\ op.args[2] = CtxB
    /\ res.instance = Some("/b")
    /\ res.detail = Some("bad request")
    /\ res.start_time = 0
    /\ res.trace_context = Some(CtxB.trace)

\* C17: Response::from(validation) of a failed validation is new(BAD_REQUEST)
\* (status 400, success false) whose raw slot data holds the serialized
\* field-error mapping, json_data being null; of a passed validation it is
\* new(OK) with both payload slots empty.
C17_FromValidation ==
    op.name = "from" =>
        LET validation == op.args[1]
        IN  IF validation.success
            THEN /\ res = new(OK)
                 /\ res.data = None
                 /\ res.json_data = JNull
            ELSE /\ res.status_code = 400
                 /\ ~res.success
                 /\ res.data = Some([raw |-> validation.map.v])
                 /\ raw_to_value(res.data) = validation.map
                 /\ res.json_data = JNull
                 /\ res = [new(BAD_REQUEST) EXCEPT !.data = res.data]

\* C17 witness: the response built from the failed validation carries its
\* field errors in the raw slot under status 400
C17_Witness ==
    /\ op.name = "from"
    /\ op.args[1] = FailedValidation
    /\ res.status_code = 400
    /\ res.data = Some([raw |-> "{'field':'error'}"])
    /\ res.detail = Some("bad request")

\* the setters whose bytes decode back to their argument, the bytes a format
\* encodes a value to, and the format's decoder
RoundTripSetters ==
    {"set_json_response", "set_csv_response", "set_msgpack_response",
     "set_jsonlines_response"}
EncodingOf(format, value) == [enc |-> format, text |-> value.v]
Decode(format, bytes) ==
    IF bytes.enc = format /\ \E x \in AllJson : x.v = bytes.text
    THEN Some(CHOOSE x \in AllJson : x.v = bytes.text)
    ELSE None

TransformerInput(r) ==
    IF r.json_data # JNull THEN r.json_data ELSE raw_to_value(r.data)

\* C18: with a transformer installed read_bytes returns the transformer's
\* value or error for json_data if it is non-null and else for the
\* deserialized data (null when absent); the result does not depend on the
\* content type or on the success flag, and is never the envelope, the
\* dispatched payload or the empty buffer.
C18_TransformerPriority ==
    (op.name = "read_bytes" /\ IsSome(res.data_transformer)) =>
        /\ out.bytes = ApplyTransformer(Unwrap(res.data_transformer),
                                        TransformerInput(res))
        /\ \A ct \in {None} \cup {Some(c) : c \in ContentTypes}, success \in BOOLEAN :
               read_bytes([res EXCEPT !.content_type = ct, !.success = success])
                   = out.bytes
        /\ out.bytes.ok =>
               out.bytes.val.enc = Unwrap(res.data_transformer)

\* C18 witness: a response with the CSV transformer installed, a plain-text
\* content type and a raw payload was encoded by the transformer
C18_Witness ==
    /\ op.name = "read_bytes"
    /\ res.data_transformer = Some("csv")
    /\ res.content_type = Some("text/plain; charset=utf-8")
    /\ IsSome(res.data)
    /\ out.bytes = Ok([enc |-> "csv", text |-> "'s'"])

\* the payload text the envelope carries: the raw slot's text, else the
\* structured slot's
PayloadText(r) ==
    IF IsSome(r.data) THEN Some(Unwrap(r.data).raw)
    ELSE IF r.json_data # JNull THEN Some(r.json_data.v)
    ELSE None

\* C19: with no transformer and a JSON effective content type read_bytes
\* succeeds with the serialized envelope: status, success, message, detail,
\* the payload when there is one, the request id when it is non-nil.
C19_JsonEnvelope ==
    (/\ op.name = "read_bytes"
     /\ res.data_transformer = None
     /\ check_json_content_type(content_type(res))) =>
        /\ out.bytes.ok
        /\ out.bytes.val.enc = "envelope"
        /\ LET env == out.bytes.val.text
           IN  /\ env.status = res.status_code
               /\ env.success = res.success
               /\ env.message = res.message
               /\ env.detail = res.detail
               /\ env.data = PayloadText(res)
               /\ env.request_id = IF res.request_id = NilUuid THEN None
                                   ELSE Some(res.request_id)

\* C19 witness: a failed response without payload and without content type
\* override, built with a request context, was encoded as its envelope
C19_Witness ==
    /\ op.name = "read_bytes"
    /\ res.data_transformer = None
    /\ res.content_type = None
    /\ ~res.success
    /\ PayloadText(res) = None
    /\ out.bytes.ok
    /\ out.bytes.val.enc = "envelope"
    /\ out.bytes.val.text.request_id = Some(ReqUuid)
    /\ out.bytes.val.text.data = None

\* the bytes the dispatch on the content type yields for a value
DispatchOf(ct, value) ==
    IF ct = "text/csv; charset=utf-8" THEN EncodingOf("csv", value)
    ELSE IF ct = "application/jsonlines; charset=utf-8"
    THEN EncodingOf("jsonlines", value)
    ELSE IF ct = "application/msgpack" THEN EncodingOf("msgpack", value)
    ELSE IF value = JStr THEN [enc |-> "string", text |-> "s"]
    ELSE [enc |-> "text", text |-> value.v]

\* C20: with no transformer and a non-JSON effective content type read_bytes
\* succeeds; it is the empty buffer when data is absent and json_data is
\* null, and else the dispatch on the content type of the value the populated
\* slot holds; a non-null value gives the same bytes from either slot.
C20_PayloadDispatch ==
    (/\ op.name = "read_bytes"
     /\ res.data_transformer = None
     /\ ~check_json_content_type(content_type(res))) =>
        IF res.data = None /\ res.json_data = JNull
        THEN out.bytes = Ok(NoBytes)
        ELSE LET V == IF IsSome(res.data) THEN raw_to_value(res.data)
                      ELSE res.json_data
             IN  /\ out.bytes = Ok(DispatchOf(content_type(res), V))
                 /\ V # JNull =>
                        /\ read_bytes(set_data(res, V)) = out.bytes
                        /\ read_bytes(set_json_data(res, V)) = out.bytes

\* C20 witness: a bare string held in the raw slot of a plain-text response
\* was written as its characters
C20_Witness ==
    /\ op.name = "read_bytes"
    /\ res.data_transformer = None
    /\ res.content_type = Some("text/plain; charset=utf-8")
    /\ res.data = Some([raw |-> "'s'"])
    /\ out.bytes = Ok([enc |-> "string", text |-> "s"])

\* C21: message and detail are never both populated; a populated message
\* implies success, a populated detail implies failure.  Both may be empty.
C21_AtMostOneSlot ==
    /\ ~(IsSome(res.message) /\ IsSome(res.detail))
    /\ IsSome(res.message) => res.success
    /\ IsSome(res.detail) => ~res.success

\* C21 witness: set_code with a successful code that has no default message
\* ran on a response that carries a raw payload; both slots are empty
C21_Witness ==
    /\ op.name = "set_code"
    /\ op.args[1] = CUSTOM_SUCCESS
    /\ res.success
    /\ res.message = None
    /\ res.detail = None
    /\ res.status_code = 202
    /\ IsSome(res.data)

\* C22 (as stated): the conversion into the HTTP message increments the
\* responses counter and records the duration sample under the status of the
\* message it emits, also when read_bytes fails and the message is downgraded.
C22_LabelIsEmittedStatus ==
    [][op'.name = "into_full_response" =>
           LET status == Unwrap(out'.message).status
           IN  /\ metrics'.responses_total[status]
                      = metrics.responses_total[status] + 1
               /\ metrics'.duration_seconds[status]
                      = metrics.duration_seconds[status] + 1]_vars

\* the calls that install a transformer, and the one each installs
InstallCalls == ConvenienceSetters \cup {"set_data_transformer"}
InstalledBy(o) ==
    IF o.name = "set_data_transformer" THEN o.args[1] ELSE FormatOf(o.name)

\* C23: an installed transformer stays installed through every call that is
\* not an installation (set_data, set_json_data, set_validation_data,
\* set_content_type, set_code, read_bytes), an installation replaces it by
\* its own, and read_bytes is served by the transformer installed then.
C23_TransformerStaysInstalled ==
    [][/\ op'.name \in InstallCalls =>
              res'.data_transformer = Some(InstalledBy(op'))
       /\ op'.name \notin InstallCalls =>
              res'.data_transformer = res.data_transformer
       /\ (op'.name = "read_bytes" /\ IsSome(res.data_transformer)) =>
              out'.bytes = ApplyTransformer(Unwrap(res.data_transformer),
                                            TransformerInput(res))]_vars

\* C23 witness: after the MessagePack transformer was installed the payload
\* went to the raw slot, the content type was overridden and the code
\* changed; read_bytes still answered with the MessagePack encoding
C23_Witness ==
    /\ op.name = "read_bytes"
    /\ op.after.name = "set_code"
    /\ ~res.success
    /\ res.data_transformer = Some("msgpack")
    /\ res.content_type = Some("text/csv; charset=utf-8")
    /\ res.data = Some([raw |-> "{'field':'error'}"])
    /\ out.bytes = Ok([enc |-> "msgpack", text |-> "{'field':'error'}"])

\* C24 (as stated): after new, with_context, context and set_code calls a
\* response whose success flag is true carries no instance, and a response
\* with a context whose success flag is false carries one.
C24_InstanceOnlyWhileFailing ==
    /\ res.success => res.instance = None
    /\ (has_context(res) /\ ~res.success) => IsSome(res.instance)

\* the positions of a name in a header list, those among them whose value
\* is a valid header value, and the names of the list
IndicesOf(headers, name) == {i \in DOMAIN headers : headers[i][1] = name}
ValidIndicesOf(headers, name) ==
    {i \in IndicesOf(headers, name) : ValidHeaderValue(headers[i][2])}
NamesOf(headers) == {headers[i][1] : i \in DOMAIN headers}
First(S) == CHOOSE i \in S : \A j \in S : i <= j
Last(S) == CHOOSE i \in S : \A j \in S : j <= i

\* C25: insert_header appends to the header list, which keeps duplicates in
\* insertion order, also as the prefix of finalize's list; get_header is the
\* first value inserted under the name.  In the HTTP message a name of
\* finalize's list carries the value of its last entry with a valid value,
\* so finalize's traceparent replaces the caller's; a name without valid
\* entry is absent, except content-type, which is the computed content type
\* unless a caller's content-type entry replaces it.
C25_HeaderListAndMap ==
    /\ [](/\ \A name \in NamesOf(res.headers) \cup {"x-absent"} :
                 get_header(res, name) =
                     IF IndicesOf(res.headers, name) = {} THEN None
                     ELSE Some(res.headers[First(IndicesOf(res.headers, name))][2])
          /\ phase \in {"finalized", "sent"} =>
                 SubSeq(out.headers, 1, Len(res.headers)) = res.headers
          /\ phase = "sent" =>
                 LET msg == Unwrap(out.message)
                     h == out.headers
                     computed == IF read_bytes(res).ok THEN content_type(res)
                                 ELSE "text/plain; charset=utf-8"
                 IN  /\ DOMAIN msg.headers =
                            {name \in NamesOf(h) : ValidIndicesOf(h, name) # {}}
                                \cup {"content-type"}
                     /\ \A name \in NamesOf(h) :
                            ValidIndicesOf(h, name) # {} =>
                                msg.headers[name] = h[Last(ValidIndicesOf(h, name))][2]
                     /\ ValidIndicesOf(h, "content-type") = {} =>
                            msg.headers["content-type"] = <<computed>>
                     /\ msg.headers["traceparent"] # <<"caller">>)
    /\ [][op'.name = "insert_header" =>
              res'.headers = Append(res.headers, <<op'.args[1], op'.args[2]>>)]_vars

\* C25 witness: two values were inserted under x-custom; get_header answers
\* the first, the HTTP message carries the second
C25_Witness ==
    /\ phase = "sent"
    /\ res.headers = << <<"x-custom", <<"v1">>>>, <<"x-custom", <<"v2">>>> >>
    /\ get_header(res, "x-custom") = Some(<<"v1">>)
    /\ Unwrap(out.message).headers["x-custom"] = <<"v2">>

====
